---- MODULE Spec2Model ----
(***************************************************************************)
(* Stock-and-balance consistency of the paint management backend           *)
(* (src/paints/models.py, serializers.py, views.py).                       *)
(*                                                                         *)
(* Units.  Django DecimalFields are fixed point:                           *)
(*   - quantities (decimal_places=3) are integers in thousandths,          *)
(*   - money stored in the database (decimal_places=2) is in cents,        *)
(*   - unit_price * quantity, as the Python code computes it in memory,    *)
(*     has five decimals: it is an integer in "fine" units, 1/1000 cent.   *)
(* Writing a money field quantizes the in-memory value to whole cents.     *)
(***************************************************************************)
EXTENDS Integers, Sequences, FiniteSets, TLC

\* ------------------------------------------------------------- bounds
\* Number of API requests in a behaviour.
MaxOps == 2

\* ---------------------------------------------------------- constants
\* 10^3: quantity has decimal_places=3, so a product price * quantity has
\* three more decimals than a stored money amount.
QuantityScale == 1000
\* A null foreign key / an unsaved object's pk.
None == 0
\* A null DecimalField (price_per_unit, total_cost of a movement) and the
\* NULL of an aggregate over no rows: a value outside every modelled range.
NULL == 0 - 999999999

\* ------------------------------------------------------------ catalog
\* Three paints, one of each product type.
Paints == {1, 2, 3}
product_type(p) == IF p = 1 THEN "piece" ELSE IF p = 2 THEN "measured" ELSE "volume"

\* ------------------------------------------------------------ helpers
Abs(x) == IF x < 0 THEN 0 - x ELSE x
MaxOf(S) == CHOOSE x \in S : \A y \in S : y <= x

\* Auto-increment primary key of a table (a function from ids to rows).
NextId(table) == IF DOMAIN table = {} THEN 1 ELSE MaxOf(DOMAIN table) + 1
Insert(table, row) == table @@ (NextId(table) :> row)
Remove(table, id) == [i \in DOMAIN table \ {id} |-> table[i]]

\* Cents of an in-memory fine amount, as written to a decimal_places=2
\* column: Decimal.quantize with the default context, ROUND_HALF_EVEN.
Quantize2(fine) ==
    LET q == fine \div QuantityScale
        r == fine % QuantityScale
    IN IF 2 * r > QuantityScale THEN q + 1
       ELSE IF 2 * r < QuantityScale THEN q
       ELSE IF q % 2 = 0 THEN q ELSE q + 1
\* A stored amount read back into memory.
Fine(cents) == cents * QuantityScale

RECURSIVE SumOver(_, _, _)
\* Sum('field') over the rows of a table whose ids are in S; the caller
\* decides what an empty aggregate (SQL NULL) becomes.
SumOver(table, S, field) ==
    IF S = {} THEN 0
    ELSE LET i == CHOOSE x \in S : TRUE
         IN table[i][field] + SumOver(table, S \ {i}, field)

\* aggregate(total=Sum(field))['total']: NULL over no rows.
Aggregate(table, S, field) == IF S = {} THEN NULL ELSE SumOver(table, S, field)

\* ------------------------------------------------------------- state
VARIABLES
    customers,       \* id -> [name, phone, balance]
    payments,        \* id -> [customer, amount]
    sales,           \* id -> [sale_number, customer, total_amount, paid_amount, payment_type]
    sale_items,      \* id -> [sale, paint, quantity, unit_price, total_price]
    purchases,       \* id -> [purchase_number, total_amount]
    purchase_items,  \* id -> [purchase, paint, quantity, unit_cost, total_cost]
    movements,       \* id -> [paint, movement_type, quantity, price_per_unit, total_cost]
    paints,          \* paint -> [cost_price, selling_price]
    now,             \* the wall clock, in seconds
    last,            \* the last request and its response
    ops,             \* number of requests served
    applied,         \* history: customer id -> sale shortfalls added to its balance
    edited,          \* history: a balance was written through the customer API
    validated,       \* worker -> the request it holds between is_valid() and save()
    expect           \* history: payment id -> its customer's balance without that payment

tables == <<customers, payments, sales, sale_items, purchases, purchase_items, movements,
            paints>>
vars == <<customers, payments, sales, sale_items, purchases, purchase_items, movements, paints,
          now, last, ops, applied, edited, expect, validated>>

\* The database as one value, so that a request handler is a function
\* from database to database and a transaction can be rolled back.
DB == [customers |-> customers, payments |-> payments, sales |-> sales,
       sale_items |-> sale_items, purchases |-> purchases,
       purchase_items |-> purchase_items, movements |-> movements, paints |-> paints]

Commit(d) ==
    /\ customers' = d.customers
    /\ payments' = d.payments
    /\ sales' = d.sales
    /\ sale_items' = d.sale_items
    /\ purchases' = d.purchases
    /\ purchase_items' = d.purchase_items
    /\ movements' = d.movements
    /\ paints' = d.paints

Response(op, status, id, paid_in, overstock) ==
    [op |-> op, status |-> status, id |-> id, paid_in |-> paid_in, overstock |-> overstock,
     items |-> <<>>, phone |-> ""]

\* A response, with the lines (for a stock movement, the one record sent)
\* and the customer phone of the request.
Echo(response, items, phone) == [response EXCEPT !.items = items, !.phone = phone]

\* ---------------------------------------------------------- Paint
MovementsOf(d, p) == {i \in DOMAIN d.movements : d.movements[i].paint = p}

\* current_stock as it would be if only incoming movements were summed.
current_stock_incoming_only(d, p) ==
    SumOver(d.movements, {i \in MovementsOf(d, p) : d.movements[i].quantity > 0}, "quantity")

\* Paint.current_stock: Sum('quantity') over the paint's movements, or 0
\* when the aggregate is NULL (no movements).
current_stock(d, p) ==
    LET total == Aggregate(d.movements, MovementsOf(d, p), "quantity")
    IN IF total = NULL \/ total = 0 THEN 0 ELSE total

\* ---------------------------------------------------------- StockMovement
\* StockMovement.save of a new movement.
StockMovement_save(d, mv) ==
    LET total_cost == IF mv.price_per_unit # NULL /\ mv.price_per_unit # 0 /\ mv.quantity # 0
                      THEN Quantize2(mv.price_per_unit * Abs(mv.quantity))
                      ELSE mv.total_cost
        quantity == IF mv.movement_type = "out" /\ mv.quantity > 0
                    THEN 0 - mv.quantity ELSE mv.quantity
    IN [d EXCEPT !.movements =
           Insert(@, [mv EXCEPT !.total_cost = total_cost, !.quantity = quantity])]

\* StockMovement.save of the existing movement pk as it would be if an
\* 'out' quantity were stored as entered.
StockMovement_resave_as_entered(d, pk, mv) ==
    [d EXCEPT !.movements[pk] =
        [mv EXCEPT !.total_cost =
            IF mv.price_per_unit # NULL /\ mv.price_per_unit # 0 /\ mv.quantity # 0
            THEN Quantize2(mv.price_per_unit * Abs(mv.quantity)) ELSE @]]

\* StockMovement.save of the existing movement pk, with the field values mv:
\* the same statements run as for a new movement, then the row is updated.
StockMovement_resave(d, pk, mv) ==
    [d EXCEPT !.movements[pk] =
        [mv EXCEPT !.total_cost =
                      IF mv.price_per_unit # NULL /\ mv.price_per_unit # 0 /\ mv.quantity # 0
                      THEN Quantize2(mv.price_per_unit * Abs(mv.quantity)) ELSE @,
                   !.quantity =
                      IF mv.movement_type = "out" /\ mv.quantity > 0 THEN 0 - @ ELSE @]]

Movement(paint, movement_type, quantity, price_per_unit) ==
    [paint |-> paint, movement_type |-> movement_type, quantity |-> quantity,
     price_per_unit |-> price_per_unit, total_cost |-> NULL]

\* ---------------------------------------------------------- Payment
\* Payment.save as it would be if an update took the whole new amount off.
Payment_save_whole_amount(d, pk, pay) ==
    IF pk = None
    THEN [d EXCEPT !.payments = Insert(@, pay),
                   !.customers[pay.customer].balance = @ - pay.amount]
    ELSE [d EXCEPT !.payments[pk] = pay,
                   !.customers[pay.customer].balance = @ - pay.amount]

\* Payment.save: pk = None creates, otherwise updates the row pk.
Payment_save(d, pk, pay) ==
    IF pk = None
    THEN LET d1 == [d EXCEPT !.payments = Insert(@, pay)]
         IN [d1 EXCEPT !.customers[pay.customer].balance = @ - pay.amount]
    ELSE LET old_payment == d.payments[pk]
             difference == pay.amount - old_payment.amount
             d1 == [d EXCEPT !.payments[pk] = pay]
         IN [d1 EXCEPT !.customers[pay.customer].balance = @ - difference]

\* Payment.delete as it would be without the balance restoration.
Payment_delete_row_only(d, pk) == [d EXCEPT !.payments = Remove(@, pk)]

\* Payment.delete
Payment_delete(d, pk) ==
    LET pay == d.payments[pk]
        d1 == [d EXCEPT !.customers[pay.customer].balance = @ + pay.amount]
    IN [d1 EXCEPT !.payments = Remove(@, pk)]

\* ---------------------------------------------------------- Sale
\* An in-memory Sale object keeps the amounts the Python code assigned
\* (fine units); the row written by save() holds them quantized to cents.
SaleRow(sale) ==
    [sale_number |-> sale.sale_number, customer |-> sale.customer,
     total_amount |-> Quantize2(sale.total_amount),
     paid_amount |-> Quantize2(sale.paid_amount),
     payment_type |-> sale.payment_type]

\* A save that would take the number from the clock every time.
Sale_presave_renumbering(d, sale, t) ==
    [sale EXCEPT !.sale_number = t,
                 !.paid_amount = IF @ = 0 /\ sale.payment_type # "debt"
                                 THEN sale.total_amount ELSE @,
                 !.pk = IF @ = None THEN NextId(d.sales) ELSE @]
\* Sale.save before super().save(): the number of a sale that has none is
\* the clock reading t; a paid_amount of 0 on a sale not of type debt
\* becomes the total.
Sale_presave(d, sale, t) ==
    [sale EXCEPT !.sale_number = IF @ = None THEN t ELSE @,
                 !.paid_amount = IF @ = 0 /\ sale.payment_type # "debt"
                                 THEN sale.total_amount ELSE @,
                 !.pk = IF @ = None THEN NextId(d.sales) ELSE @]

\* A write that would not know the unique constraint.
Sale_write_without_unique(d, sale) ==
    [ok |-> TRUE, d |-> [d EXCEPT !.sales = (sale.pk :> SaleRow(sale)) @@ @], sale |-> sale]
\* super().save(): insert or update the row; ok = FALSE is the
\* IntegrityError of the unique sale_number.
Sale_write(d, sale) ==
    IF \E i \in DOMAIN d.sales \ {sale.pk} : d.sales[i].sale_number = sale.sale_number
    THEN [ok |-> FALSE, d |-> d, sale |-> sale]
    ELSE [ok |-> TRUE, d |-> [d EXCEPT !.sales = (sale.pk :> SaleRow(sale)) @@ @],
          sale |-> sale]

Sale_save(d, sale, t) == Sale_write(d, Sale_presave(d, sale, t))

SaleItemsOf(d, pk) == {i \in DOMAIN d.sale_items : d.sale_items[i].sale = pk}

\* The database d with the shortfall of the stored sale pk added to the
\* balance of its customer.
ShortfallApplied(d, pk) ==
    IF d.sales[pk].customer # None /\ d.sales[pk].total_amount > d.sales[pk].paid_amount
    THEN [d EXCEPT !.customers[d.sales[pk].customer].balance =
             @ + d.sales[pk].total_amount - d.sales[pk].paid_amount]
    ELSE d

\* The Sale instance loaded from row pk.
Sale_instance(d, pk) ==
    [pk |-> pk, sale_number |-> d.sales[pk].sale_number, customer |-> d.sales[pk].customer,
     total_amount |-> Fine(d.sales[pk].total_amount),
     paid_amount |-> Fine(d.sales[pk].paid_amount),
     payment_type |-> d.sales[pk].payment_type]

\* An update that would add the updated sale's shortfall to its customer.
SaleSerializer_update_applying_debt(d, pk, data, t) ==
    ShortfallApplied(
        Sale_save(d, [Sale_instance(d, pk) EXCEPT !.customer = data.customer,
                                                  !.paid_amount = Fine(data.paid_amount),
                                                  !.payment_type = data.payment_type], t).d,
        pk)
\* SaleSerializer update (customer, paid_amount and payment_type are
\* writable; sale_number and total_amount are read-only), then Sale.save.
SaleSerializer_update(d, pk, data, t) ==
    Sale_save(d, [Sale_instance(d, pk) EXCEPT !.customer = data.customer,
                                              !.paid_amount = Fine(data.paid_amount),
                                              !.payment_type = data.payment_type], t).d

\* A deletion that would also take the lines' stock movements along.
Sale_delete_with_movements(d, pk) ==
    [d EXCEPT !.sales = Remove(@, pk),
              !.sale_items = [i \in DOMAIN @ \ SaleItemsOf(d, pk) |-> @[i]],
              !.movements = [i \in {j \in DOMAIN @ :
                                     \A k \in SaleItemsOf(d, pk) :
                                         \/ @[j].paint # d.sale_items[k].paint
                                         \/ @[j].movement_type # "out"} |-> @[i]]]
\* A deletion that would take the sale's shortfall off its customer.
Sale_delete_reversing_debt(d, pk) ==
    [d EXCEPT !.sales = Remove(@, pk),
              !.sale_items = [i \in DOMAIN @ \ SaleItemsOf(d, pk) |-> @[i]],
              !.customers = [c \in DOMAIN @ |->
                    IF c = d.sales[pk].customer
                       /\ d.sales[pk].total_amount > d.sales[pk].paid_amount
                    THEN [@[c] EXCEPT !.balance =
                             @ - (d.sales[pk].total_amount - d.sales[pk].paid_amount)]
                    ELSE @[c]]]
\* Deleting the sale pk: its lines go with it (on_delete=CASCADE).
Sale_delete(d, pk) ==
    [d EXCEPT !.sales = Remove(@, pk),
              !.sale_items = [i \in DOMAIN @ \ SaleItemsOf(d, pk) |-> @[i]]]

\* sale.items.aggregate(total=Sum('total_price'))['total'] or Decimal('0')
SaleItemsTotal(d, pk) ==
    IF SaleItemsOf(d, pk) = {} THEN 0
    ELSE Fine(SumOver(d.sale_items, SaleItemsOf(d, pk), "total_price"))

\* ---------------------------------------------------------- SaleItem
\* A line that would be priced at the paint's selling_price of the moment.
SaleItem_insert_at_selling_price(d, sale, item) ==
    [d EXCEPT !.sale_items =
        Insert(@, [sale |-> sale.pk, paint |-> item.paint,
                   quantity |-> item.quantity,
                   unit_price |-> d.paints[item.paint].selling_price,
                   total_price |-> Quantize2(d.paints[item.paint].selling_price
                                                * item.quantity)])]
\* super().save() of a new line: total_price is stored in cents.
SaleItem_insert(d, sale, item) ==
    [d EXCEPT !.sale_items =
        Insert(@, [sale |-> sale.pk, paint |-> item.paint,
                   quantity |-> item.quantity, unit_price |-> item.unit_price,
                   total_price |-> Quantize2(item.unit_price * item.quantity)])]

\* The result of saving a line: the Sale.save result s and the line's
\* in-memory total_price.
SaleItem_saved(s, total_price) ==
    [ok |-> s.ok, d |-> s.d, sale |-> s.sale, total_price |-> total_price]

\* The is_new branch of SaleItem.save, on the database d that holds the
\* line and its movement: recompute the sale's total and save the sale.
SaleItem_recompute(d, sale, item, t) ==
    SaleItem_saved(Sale_save(d, [sale EXCEPT !.total_amount = SaleItemsTotal(d, sale.pk)], t),
                   item.unit_price * item.quantity)

\* SaleItem.save as it would be if the line wrote no stock movement.
SaleItem_save_without_movement(d, sale, item, t, fails) ==
    IF fails
    THEN [ok |-> FALSE, d |-> SaleItem_insert(d, sale, item), sale |-> sale, total_price |-> 0]
    ELSE SaleItem_recompute(SaleItem_insert(d, sale, item), sale, item, t)

\* SaleItem.save of a new line of the in-memory sale.  fails: the database
\* raises while the line's stock movement is written.
SaleItem_save(d, sale, item, t, fails) ==
    IF fails
    THEN [ok |-> FALSE, d |-> SaleItem_insert(d, sale, item), sale |-> sale, total_price |-> 0]
    ELSE SaleItem_recompute(
            StockMovement_save(SaleItem_insert(d, sale, item),
                               Movement(item.paint, "out", item.quantity, item.unit_price)),
            sale, item, t)

\* ---------------------------------------------------------- Customer
NameRank(name) == IF name = "A" THEN 1 ELSE 2

WithPhone(d, phone) == {c \in DOMAIN d.customers : d.customers[c].phone = phone}

\* Customer.objects.filter(phone=phone).first(), Meta.ordering = ['name'].
FirstByPhone(d, phone) ==
    IF WithPhone(d, phone) = {} THEN None
    ELSE CHOOSE c \in WithPhone(d, phone) : \A o \in WithPhone(d, phone) :
           \/ NameRank(d.customers[c].name) < NameRank(d.customers[o].name)
           \/ /\ NameRank(d.customers[c].name) = NameRank(d.customers[o].name)
              /\ c <= o

\* ---------------------------------------------------------- serializers
\* The line validation as it would be without the whole-number test.
validate_without_piece_test(d, item) ==
    IF item.quantity <= 0 THEN FALSE
    ELSE current_stock(d, item.paint) >= item.quantity

\* The line validation as it would be without the stock comparison.
validate_without_stock(d, item) ==
    IF item.quantity <= 0 THEN FALSE
    ELSE ~(/\ product_type(item.paint) = "piece"
           /\ item.quantity # (item.quantity \div QuantityScale) * QuantityScale)

\* CreateSaleItemSerializer: validate_quantity, then validate.
CreateSaleItemSerializer_validate(d, item) ==
    IF item.quantity <= 0 THEN FALSE
    ELSE IF /\ product_type(item.paint) = "piece"
            /\ item.quantity # (item.quantity \div QuantityScale) * QuantityScale
    THEN FALSE
    ELSE IF current_stock(d, item.paint) < item.quantity THEN FALSE
    ELSE TRUE

\* validate as it would be without the lookup by phone.
validate_without_lookup(d, data) ==
    IF data.customer = None /\ data.customer_name # "" /\ data.customer_phone # ""
    THEN [d |-> [d EXCEPT !.customers =
                    Insert(@, [name |-> data.customer_name,
                               phone |-> data.customer_phone, balance |-> 0])],
          data |-> [data EXCEPT !.customer = NextId(d.customers)]]
    ELSE [d |-> d, data |-> data]

\* CreateSaleSerializer.validate: resolves or creates the customer.
CreateSaleSerializer_validate(d, data) ==
    IF data.customer = None /\ data.customer_name # "" /\ data.customer_phone # ""
    THEN IF FirstByPhone(d, data.customer_phone) # None
         THEN [d |-> d,
               data |-> [data EXCEPT !.customer = FirstByPhone(d, data.customer_phone)]]
         ELSE [d |-> [d EXCEPT !.customers =
                        Insert(@, [name |-> data.customer_name,
                                   phone |-> data.customer_phone, balance |-> 0])],
               data |-> [data EXCEPT !.customer = NextId(d.customers)]]
    ELSE [d |-> d, data |-> data]

\* total_amount += sale_item.total_price
create_accumulate(st, r) ==
    [ok |-> r.ok, d |-> r.d, sale |-> r.sale,
     total_amount |-> st.total_amount + r.total_price]

RECURSIVE create_items(_, _, _, _, _)
\* The loop of CreateSaleSerializer.create over items_data, from line k.
\* st = [ok, d, sale, total_amount]; line `fault` fails (0: none does).
create_items(st, items, k, t, fault) ==
    IF k > Len(items) \/ ~st.ok THEN st
    ELSE create_items(
            create_accumulate(st, SaleItem_save(st.d, st.sale, items[k], t, fault = k)),
            items, k + 1, t, fault)

Raised(error, d) == [ok |-> FALSE, error |-> error, d |-> d, pk |-> None]

\* if sale.customer: debt_amount = total_amount - paid_amount; if > 0 ...
create_balance(d, sale) ==
    IF sale.customer # None /\ sale.total_amount - sale.paid_amount > 0
    THEN [d EXCEPT !.customers[sale.customer].balance =
             Quantize2(Fine(@) + sale.total_amount - sale.paid_amount)]
    ELSE d

\* customer_saved: sale.customer.save() ran.
create_return(s) ==
    [ok |-> TRUE, error |-> "", d |-> create_balance(s.d, s.sale), pk |-> s.sale.pk,
     customer_saved |-> (s.sale.customer # None
                            /\ s.sale.total_amount - s.sale.paid_amount > 0)]

\* sale.total_amount = total_amount; sale.save(); then the balance.
create_total(st, t) ==
    IF ~st.ok THEN Raised("DatabaseError", st.d)
    ELSE create_return(Sale_save(st.d, [st.sale EXCEPT !.total_amount = st.total_amount], t))

\* After Sale.objects.create(**validated_data) gave s.
create_lines(s, data, t, fault) ==
    IF ~s.ok THEN Raised("IntegrityError", s.d)
    ELSE create_total(
            create_items([ok |-> TRUE, d |-> s.d, sale |-> s.sale, total_amount |-> 0],
                         data.items, 1, t, fault), t)

\* The body of CreateSaleSerializer.create.
CreateSaleSerializer_create(d, data, t, fault) ==
    create_lines(
        Sale_save(d, [pk |-> None, sale_number |-> None, customer |-> data.customer,
                      total_amount |-> 0, paid_amount |-> Fine(data.paid_amount),
                      payment_type |-> data.payment_type], t),
        data, t, fault)

\* A create() without @transaction.atomic: what was written stays.
atomic_absent(before, result) == result.d

\* @transaction.atomic: the database after the block, or the one before it
\* when the block raised.
atomic(before, result) == IF result.ok THEN result.d ELSE before

\* What a create request leaves: the database and the response.
Outcome(before, r) ==
    [d |-> atomic(before, r), status |-> IF r.ok THEN "created" ELSE r.error, pk |-> r.pk]

\* serializer.is_valid() passed the lines; validate(), then save().
perform_create_sale(v, t, fault) ==
    Outcome(v.d, CreateSaleSerializer_create(v.d, v.data, t, fault))

\* A request that would read the customer's row again when it writes.
WithInstance_reloaded(d, c, instance) == d
\* The database as a request sees it that loaded the row of customer c
\* earlier: the instance it holds stands for the row.
WithInstance(d, c, instance) ==
    IF c = None THEN d ELSE [d EXCEPT !.customers[c] = instance]

\* The result r of a create() that ran with a loaded instance of customer
\* c, on the database d: the instance is written by customer.save() only.
Unloaded(d, c, r) ==
    IF c # None /\ r.ok /\ ~r.customer_saved
    THEN [r EXCEPT !.d.customers[c] = d.customers[c]]
    ELSE r

\* save() of a request whose customer was loaded as instance when it was
\* validated: sale.customer is that instance, not the row of this moment.
perform_create_sale_loaded(d, instance, data, t, fault) ==
    Outcome(d, Unloaded(d, data.customer,
                        CreateSaleSerializer_create(
                            WithInstance(d, data.customer, instance), data, t, fault)))

\* ---------------------------------------------------------- Purchase
PurchaseRow(purchase) ==
    [purchase_number |-> purchase.purchase_number,
     total_amount |-> Quantize2(purchase.total_amount)]

Purchase_presave(d, purchase, t) ==
    [purchase EXCEPT !.purchase_number = IF @ = None THEN t ELSE @,
                     !.pk = IF @ = None THEN NextId(d.purchases) ELSE @]

\* ok = FALSE is the IntegrityError of the unique purchase_number.
Purchase_write(d, purchase) ==
    IF \E i \in DOMAIN d.purchases \ {purchase.pk} :
          d.purchases[i].purchase_number = purchase.purchase_number
    THEN [ok |-> FALSE, d |-> d, purchase |-> purchase]
    ELSE [ok |-> TRUE,
          d |-> [d EXCEPT !.purchases = (purchase.pk :> PurchaseRow(purchase)) @@ @],
          purchase |-> purchase]

\* Purchase.save at clock reading t.
Purchase_save(d, purchase, t) == Purchase_write(d, Purchase_presave(d, purchase, t))

PurchaseItemsOf(d, pk) == {i \in DOMAIN d.purchase_items : d.purchase_items[i].purchase = pk}

\* Deleting the purchase pk: its lines go with it (on_delete=CASCADE).
Purchase_delete(d, pk) ==
    [d EXCEPT !.purchases = Remove(@, pk),
              !.purchase_items = [i \in DOMAIN @ \ PurchaseItemsOf(d, pk) |-> @[i]]]

\* PurchaseSerializer update (purchase_number and total_amount are
\* read-only), then Purchase.save.
PurchaseSerializer_update(d, pk, t) ==
    Purchase_save(d, [pk |-> pk, purchase_number |-> d.purchases[pk].purchase_number,
                      total_amount |-> Fine(d.purchases[pk].total_amount)], t).d

\* purchase.items.aggregate(total=Sum('total_cost'))['total'] or Decimal('0')
PurchaseItemsTotal(d, pk) ==
    IF PurchaseItemsOf(d, pk) = {} THEN 0
    ELSE Fine(SumOver(d.purchase_items, PurchaseItemsOf(d, pk), "total_cost"))

PurchaseItem_insert(d, purchase, item) ==
    [d EXCEPT !.purchase_items =
        Insert(@, [purchase |-> purchase.pk, paint |-> item.paint,
                   quantity |-> item.quantity, unit_cost |-> item.unit_cost,
                   total_cost |-> Quantize2(item.unit_cost * item.quantity)])]

\* The recomputation as it would be if the total were taken from the line
\* just written instead of from all the purchase's lines.
PurchaseItem_recompute_last_line(d, purchase, t) ==
    Purchase_save(d, [purchase EXCEPT !.total_amount =
                         Fine(d.purchase_items[NextId(d.purchase_items) - 1].total_cost)], t)

PurchaseItem_recompute(d, purchase, t) ==
    Purchase_save(d, [purchase EXCEPT !.total_amount = PurchaseItemsTotal(d, purchase.pk)], t)

\* PurchaseItem.save of a new line.
PurchaseItem_save(d, purchase, item, t, fails) ==
    IF fails
    THEN [ok |-> FALSE, d |-> PurchaseItem_insert(d, purchase, item), purchase |-> purchase]
    ELSE PurchaseItem_recompute(
            StockMovement_save(PurchaseItem_insert(d, purchase, item),
                               Movement(item.paint, "in", item.quantity, item.unit_cost)),
            purchase, t)

\* CreatePurchaseItemSerializer.validate_quantity
CreatePurchaseItemSerializer_validate(item) == item.quantity > 0

RECURSIVE purchase_items_loop(_, _, _, _, _)
\* The loop of CreatePurchaseSerializer.create; st = [ok, d, purchase].
purchase_items_loop(st, items, k, t, fault) ==
    IF k > Len(items) \/ ~st.ok THEN st
    ELSE purchase_items_loop(PurchaseItem_save(st.d, st.purchase, items[k], t, fault = k),
                             items, k + 1, t, fault)

purchase_return(st) ==
    IF ~st.ok THEN Raised("DatabaseError", st.d)
    ELSE [ok |-> TRUE, error |-> "", d |-> st.d, pk |-> st.purchase.pk]

purchase_lines(p, data, t, fault) ==
    IF ~p.ok THEN Raised("IntegrityError", p.d)
    ELSE purchase_return(purchase_items_loop(p, data.items, 1, t, fault))

\* The body of CreatePurchaseSerializer.create.
CreatePurchaseSerializer_create(d, data, t, fault) ==
    purchase_lines(
        Purchase_save(d, [pk |-> None, purchase_number |-> None, total_amount |-> 0], t),
        data, t, fault)

perform_create_purchase(d, data, t, fault) ==
    Outcome(d, CreatePurchaseSerializer_create(d, data, t, fault))

\* ------------------------------------------------------- request inputs
\* Sale lines: a whole piece at 0.02; 0.4 of the measured paint at 0.01
\* (0.004, which no cent amount represents); 0.4 of a piece.
LinePiece == [paint |-> 1, quantity |-> QuantityScale, unit_price |-> 2]
LineMeasured == [paint |-> 2, quantity |-> 4 * (QuantityScale \div 10), unit_price |-> 1]
LinePieceFraction == [paint |-> 1, quantity |-> 4 * (QuantityScale \div 10), unit_price |-> 2]
\* 0.5 of the measured paint at 0.01: 0.005, half a cent.
LineHalf == [paint |-> 2, quantity |-> QuantityScale \div 2, unit_price |-> 1]
\* 0.4 of the volume paint at 0.01; no quantity; a negative quantity.
LineVolume == [paint |-> 3, quantity |-> 4 * (QuantityScale \div 10), unit_price |-> 1]
LineZero == [paint |-> 2, quantity |-> 0, unit_price |-> 1]
LineNegative == [paint |-> 2, quantity |-> 0 - QuantityScale, unit_price |-> 1]
SaleItemLists ==
    { <<LinePiece>>, <<LineHalf>>, <<LinePieceFraction>>,
      <<LinePiece, LineVolume>>, <<LineZero>>, <<LinePiece, LineNegative>>,
      <<LinePiece, LinePiece>>, <<LineMeasured, LineMeasured>> }
PurchaseLine == [paint |-> 1, quantity |-> QuantityScale, unit_cost |-> 1]
\* 0.4 of the measured paint at 0.01 a unit: 0.004.
PurchaseFraction == [paint |-> 2, quantity |-> 4 * (QuantityScale \div 10), unit_cost |-> 1]
PurchaseItemLists ==
    { <<PurchaseLine>>, <<PurchaseLine, PurchaseLine>>,
      <<PurchaseFraction, PurchaseFraction>>,
      <<PurchaseLine, [PurchaseLine EXCEPT !.quantity = 0]>> }
\* payment_type and paid_amount of a sale request (an omitted paid_amount
\* is 0 after CreateSaleSerializer.validate).  Sale.save tests only
\* paid_amount = 0 and payment_type = 'debt', so cash stands for transfer
\* and card, and a non-zero paid_amount takes one path whatever the type.
SalePayments ==
    { [payment_type |-> "cash", paid_amount |-> 0],
      [payment_type |-> "debt", paid_amount |-> 0],
      [payment_type |-> "debt", paid_amount |-> 2] }
PaymentAmounts == {0, 1, 2}
BalanceInputs == {0, 1}
AdjustQuantities == {QuantityScale, 0 - QuantityScale}
\* The paints whose stock is adjusted or written through the movement API.
AdjustPaints == {2}
\* movement_type, quantity and price_per_unit sent to the stock-movement
\* API: every type with either sign, with and without a price.
MovementData ==
    { [movement_type |-> "in", quantity |-> QuantityScale, price_per_unit |-> NULL],
      [movement_type |-> "in", quantity |-> QuantityScale, price_per_unit |-> 2],
      [movement_type |-> "in", quantity |-> QuantityScale, price_per_unit |-> 3],
      [movement_type |-> "in", quantity |-> 0 - QuantityScale, price_per_unit |-> NULL],
      [movement_type |-> "out", quantity |-> QuantityScale, price_per_unit |-> 2],
      [movement_type |-> "out", quantity |-> 0 - QuantityScale, price_per_unit |-> NULL],
      [movement_type |-> "adjustment", quantity |-> QuantityScale, price_per_unit |-> NULL],
      [movement_type |-> "adjustment", quantity |-> 0 - QuantityScale, price_per_unit |-> 3] }
\* Who the sale is for: nobody, an existing customer by id, or a name and a
\* phone without an id.
SaleCustomers(d) ==
    {[customer |-> c, customer_name |-> "", customer_phone |-> ""] :
        c \in {None} \cup DOMAIN d.customers}
    \cup {[customer |-> None, customer_name |-> "A", customer_phone |-> "555"]}

\* cost_price and selling_price sent to the paint API for the piece paint:
\* a dearer purchase, a cheaper sale, and a selling_price under 0.01.
PricedPaints == {1}
PriceInputs ==
    { [cost_price |-> 2, selling_price |-> 3],
      [cost_price |-> 1, selling_price |-> 2],
      [cost_price |-> 1, selling_price |-> 4],
      [cost_price |-> 1, selling_price |-> 0] }

\* The processes that serve requests side by side.
Workers == {1, 2}
\* The sale requests sent while another one is being served.
ConcurrentItemLists == {<<LinePiece>>, <<LinePiece, LinePiece>>, <<LineHalf>>}
ConcurrentPayments == {[payment_type |-> "cash", paid_amount |-> 0]}
\* The amounts of the payments sent while another request is being served.
ConcurrentAmounts == {1, 2}

\* ------------------------------------------------------------ history
BalanceOf(cs, c) == IF c \in DOMAIN cs THEN cs[c].balance ELSE 0
\* applied, with the balance changes of a sale creation added.
Applied(d) ==
    [c \in DOMAIN d.customers |->
        (IF c \in DOMAIN applied THEN applied[c] ELSE 0)
        + d.customers[c].balance - BalanceOf(customers, c)]
\* applied, extended to the customers of d.
SameApplied(d) ==
    [c \in DOMAIN d.customers |-> IF c \in DOMAIN applied THEN applied[c] ELSE 0]
\* expect after a request: the payments in `own` are the request's own and
\* stop being followed; every other followed payment sees the balance
\* change of its customer.
Expect(d, own) ==
    [id \in (DOMAIN expect \cap DOMAIN d.payments) \ own |->
        expect[id] + d.customers[payments[id].customer].balance
                   - customers[payments[id].customer].balance]

\* ------------------------------------------------------------- actions
\* The empty database, or a shop that has been running: opening stock
\* entered with adjust_stock (2 pieces, 0.8 of the measured and of the
\* volume paint) and one
\* customer who has prepaid 0.01.
Init ==
    /\ \/ /\ customers = <<>>
          /\ movements = <<>>
          /\ payments = <<>>
          /\ expect = <<>>
       \/ /\ customers = (1 :> [name |-> "B", phone |-> "777", balance |-> 0 - 1])
          /\ movements = (1 :> Movement(1, "adjustment", 2 * QuantityScale, NULL))
                         @@ (2 :> Movement(2, "adjustment", 8 * (QuantityScale \div 10), NULL))
                         @@ (3 :> Movement(3, "adjustment", 8 * (QuantityScale \div 10), NULL))
          /\ payments = (1 :> [customer |-> 1, amount |-> 1])
          /\ expect = (1 :> 0)
    /\ sales = <<>>
    /\ sale_items = <<>>
    /\ purchases = <<>>
    /\ purchase_items = <<>>
    /\ now = 1
    /\ last = Response("none", "", None, 0, FALSE)
    /\ ops = 0
    /\ paints = [p \in Paints |-> [cost_price |-> 1, selling_price |-> 3]]
    /\ validated = [w \in Workers |-> <<>>]
    /\ applied = [c \in DOMAIN customers |-> 0]
    /\ edited = FALSE

\* Some line of the request asks for more than the paint's current stock.
Overstock(d, items) ==
    \E k \in 1..Len(items) : items[k].quantity > current_stock(d, items[k].paint)

\* The response to a sale request that passed the lines' validation.
\* A creation that raised answers with the error alone.
SaleResponds(o, paid_amount, overstock, items, phone) ==
    /\ Commit(o.d)
    /\ last' = IF o.status = "created"
               THEN Echo(Response("createSale", o.status, o.pk, paid_amount, overstock),
                         items, phone)
               ELSE Echo(Response("createSale", o.status, None, 0, overstock), <<>>, phone)
    /\ applied' = Applied(o.d)
    /\ expect' = Expect(o.d, {})

\* POST /sales/: SaleViewSet.create with CreateSaleSerializer.  is_valid()
\* validates every line, then the sale (which resolves the customer);
\* save() runs create().
SaleViewSet_create ==
    \E items \in SaleItemLists :
      /\ ops < MaxOps
      /\ ops' = ops + 1
      /\ UNCHANGED validated
      /\ UNCHANGED <<now, edited>>
      /\ IF \E k \in 1..Len(items) : ~CreateSaleItemSerializer_validate(DB, items[k])
         THEN /\ UNCHANGED <<tables, applied, expect>>
              /\ last' = Echo(Response("createSale", "ValidationError", None, 0,
                                       Overstock(DB, items)), items, "")
         ELSE \E who \in SaleCustomers(DB), pay \in SalePayments, fault \in 0..Len(items) :
                SaleResponds(
                    perform_create_sale(
                        CreateSaleSerializer_validate(DB,
                            [customer |-> who.customer,
                             customer_name |-> who.customer_name,
                             customer_phone |-> who.customer_phone,
                             paid_amount |-> pay.paid_amount,
                             payment_type |-> pay.payment_type, items |-> items]),
                        now, fault),
                    pay.paid_amount, Overstock(DB, items), items, who.customer_phone)

PurchaseResponds(o, items) ==
    /\ Commit(o.d)
    /\ last' = IF o.status = "created"
               THEN Echo(Response("createPurchase", o.status, o.pk, 0, FALSE), items, "")
               ELSE Response("createPurchase", o.status, None, 0, FALSE)

\* POST /purchases/: PurchaseViewSet with CreatePurchaseSerializer.
PurchaseViewSet_create ==
    \E items \in PurchaseItemLists :
      /\ ops < MaxOps
      /\ ops' = ops + 1
      /\ UNCHANGED validated
      /\ UNCHANGED <<now, edited, applied, expect>>
      /\ IF \E k \in 1..Len(items) : ~CreatePurchaseItemSerializer_validate(items[k])
         THEN /\ UNCHANGED tables
              /\ last' = Echo(Response("createPurchase", "ValidationError", None, 0, FALSE),
                              items, "")
         ELSE \E fault \in 0..Len(items) :
                PurchaseResponds(perform_create_purchase(DB, [items |-> items], now, fault),
                                 items)

\* The paint and the quantity of an adjustment request.
Adjustment(paint, quantity) == <<[paint |-> paint, quantity |-> quantity]>>

\* An adjustment that would refuse to take the stock below zero.
adjust_stock_checked ==
    \E paint \in AdjustPaints, quantity \in AdjustQuantities :
      /\ ops < MaxOps
      /\ ops' = ops + 1
      /\ UNCHANGED validated
      /\ UNCHANGED <<now, edited, applied, expect>>
      /\ IF current_stock(DB, paint) + quantity < 0
         THEN /\ UNCHANGED tables
              /\ last' = Echo(Response("adjustStock", "ValidationError", None, 0, TRUE),
                              Adjustment(paint, quantity), "")
         ELSE /\ Commit(StockMovement_save(DB, Movement(paint, "adjustment", quantity, NULL)))
              /\ last' = Echo(Response("adjustStock", "ok", NextId(movements), 0, FALSE),
                              Adjustment(paint, quantity), "")
\* POST /paints/{id}/adjust_stock/ with a decimal quantity: one movement of
\* type 'adjustment' is created, whatever the stock.
adjust_stock ==
    \E paint \in AdjustPaints, quantity \in AdjustQuantities :
      /\ ops < MaxOps
      /\ ops' = ops + 1
      /\ UNCHANGED validated
      /\ Commit(StockMovement_save(DB, Movement(paint, "adjustment", quantity, NULL)))
      /\ last' = Echo(Response("adjustStock", "ok", NextId(movements), 0, FALSE),
                      Adjustment(paint, quantity), "")
      /\ UNCHANGED <<now, edited, applied, expect>>

\* POST /customers/: CustomerSerializer, every model field writable but
\* the timestamps.
CustomerViewSet_create ==
    \E phone \in {"555"}, balance \in BalanceInputs :
      LET d == [DB EXCEPT !.customers =
                   Insert(@, [name |-> "B", phone |-> phone, balance |-> balance])]
      IN /\ ops < MaxOps
         /\ ops' = ops + 1
         /\ UNCHANGED validated
         /\ Commit(d)
         /\ last' = Response("customerCreate", "created", NextId(customers), 0, FALSE)
         /\ applied' = SameApplied(d)
         /\ edited' = (edited \/ balance # 0)
         /\ UNCHANGED <<now, expect>>

\* PUT/PATCH /customers/{id}/
CustomerViewSet_update ==
    \E c \in DOMAIN customers, balance \in BalanceInputs :
      LET d == [DB EXCEPT !.customers[c].balance = balance]
      IN /\ ops < MaxOps
         /\ ops' = ops + 1
         /\ UNCHANGED validated
         /\ Commit(d)
         /\ last' = Response("customerUpdate", "ok", c, 0, FALSE)
         /\ edited' = (edited \/ balance # customers[c].balance)
         /\ expect' = Expect(d, {})
         /\ UNCHANGED <<now, applied>>

\* POST /payments/ and POST /customers/{id}/add_payment/:
\* CreatePaymentSerializer, then Payment.save.
PaymentViewSet_create ==
    \E c \in DOMAIN customers, amount \in PaymentAmounts :
      LET d == Payment_save(DB, None, [customer |-> c, amount |-> amount])
          id == NextId(payments)
      IN /\ ops < MaxOps
         /\ ops' = ops + 1
         /\ UNCHANGED validated
         /\ UNCHANGED <<now, edited, applied>>
         /\ IF amount <= 0
            THEN /\ UNCHANGED <<tables, expect>>
                 /\ last' = Response("paymentCreate", "ValidationError", None, 0, FALSE)
            ELSE /\ Commit(d)
                 /\ last' = Response("paymentCreate", "created", id, 0, FALSE)
                 /\ expect' = Expect(d, {id}) @@ (id :> customers[c].balance)

\* PUT/PATCH /payments/{id}/: PaymentSerializer (customer and amount are
\* writable), then Payment.save.
PaymentViewSet_update ==
    \E id \in DOMAIN payments, c \in DOMAIN customers, amount \in PaymentAmounts :
      LET d == Payment_save(DB, id, [customer |-> c, amount |-> amount])
      IN /\ ops < MaxOps
         /\ ops' = ops + 1
         /\ UNCHANGED validated
         /\ UNCHANGED <<now, edited, applied>>
         /\ IF amount <= 0
            THEN /\ UNCHANGED <<tables, expect>>
                 /\ last' = Response("paymentUpdate", "ValidationError", None, 0, FALSE)
            ELSE /\ Commit(d)
                 /\ last' = Response("paymentUpdate", "ok", id, 0, FALSE)
                 /\ expect' = Expect(d, {id}) @@
                                [i \in {j \in {id} \cap DOMAIN expect :
                                           c = payments[j].customer} |-> expect[i]]

\* DELETE /payments/{id}/: Payment.delete.
PaymentViewSet_destroy ==
    \E id \in DOMAIN payments :
      LET d == Payment_delete(DB, id)
      IN /\ ops < MaxOps
         /\ ops' = ops + 1
         /\ UNCHANGED validated
         /\ Commit(d)
         /\ last' = Response("paymentDelete", "ok", id, 0, FALSE)
         /\ expect' = Expect(d, {id})
         /\ UNCHANGED <<now, edited, applied>>

\* POST /stock-movements/: StockMovementViewSet with StockMovementSerializer.
StockMovementViewSet_create ==
    \E paint \in AdjustPaints, data \in MovementData :
      /\ ops < MaxOps
      /\ ops' = ops + 1
      /\ UNCHANGED validated
      /\ Commit(StockMovement_save(DB,
            Movement(paint, data.movement_type, data.quantity, data.price_per_unit)))
      /\ last' = Echo(Response("movementCreate", "created", NextId(movements), 0, FALSE),
                      <<data>>, "")
      /\ UNCHANGED <<now, edited, applied, expect>>

\* PUT/PATCH /stock-movements/{id}/: the serializer sets the fields sent on
\* the instance (total_cost is not sent and keeps the row's value), then
\* StockMovement.save.
StockMovementViewSet_update ==
    \E id \in DOMAIN movements, data \in MovementData :
      /\ ops < MaxOps
      /\ ops' = ops + 1
      /\ UNCHANGED validated
      /\ Commit(StockMovement_resave(DB, id,
            [movements[id] EXCEPT !.movement_type = data.movement_type,
                                  !.quantity = data.quantity,
                                  !.price_per_unit = data.price_per_unit]))
      /\ last' = Echo(Response("movementUpdate", "ok", id, 0, FALSE), <<data>>, "")
      /\ UNCHANGED <<now, edited, applied, expect>>

\* DELETE /stock-movements/{id}/
StockMovementViewSet_destroy ==
    \E id \in DOMAIN movements :
      /\ ops < MaxOps
      /\ ops' = ops + 1
      /\ UNCHANGED validated
      /\ Commit([DB EXCEPT !.movements = Remove(@, id)])
      /\ last' = Response("movementDelete", "ok", id, 0, FALSE)
      /\ UNCHANGED <<now, edited, applied, expect>>

\* PUT/PATCH /sales/{id}/: SaleViewSet with SaleSerializer.
SaleViewSet_update ==
    \E id \in DOMAIN sales, c \in {None} \cup DOMAIN customers, pay \in SalePayments :
      /\ ops < MaxOps
      /\ ops' = ops + 1
      /\ UNCHANGED validated
      /\ Commit(SaleSerializer_update(DB, id,
            [customer |-> c, paid_amount |-> pay.paid_amount,
             payment_type |-> pay.payment_type], now))
      /\ last' = Response("saleUpdate", "ok", id, pay.paid_amount, FALSE)
      /\ UNCHANGED <<now, edited, applied, expect>>

\* DELETE /sales/{id}/
SaleViewSet_destroy ==
    \E id \in DOMAIN sales :
      /\ ops < MaxOps
      /\ ops' = ops + 1
      /\ UNCHANGED validated
      /\ Commit(Sale_delete(DB, id))
      /\ last' = Response("saleDelete", "ok", id, 0, FALSE)
      /\ UNCHANGED <<now, edited, applied, expect>>

\* PUT/PATCH /purchases/{id}/: PurchaseViewSet with PurchaseSerializer.
PurchaseViewSet_update ==
    \E id \in DOMAIN purchases :
      /\ ops < MaxOps
      /\ ops' = ops + 1
      /\ UNCHANGED validated
      /\ Commit(PurchaseSerializer_update(DB, id, now))
      /\ last' = Response("purchaseUpdate", "ok", id, 0, FALSE)
      /\ UNCHANGED <<now, edited, applied, expect>>

\* DELETE /purchases/{id}/
PurchaseViewSet_destroy ==
    \E id \in DOMAIN purchases :
      /\ ops < MaxOps
      /\ ops' = ops + 1
      /\ UNCHANGED validated
      /\ Commit(Purchase_delete(DB, id))
      /\ last' = Response("purchaseDelete", "ok", id, 0, FALSE)
      /\ UNCHANGED <<now, edited, applied, expect>>

\* A second passes.  Only the numbers of sales and purchases read the
\* clock, so it matters only once a document carries the current second
\* and while a request is still to come.
Tick ==
    /\ ops < MaxOps
    /\ \/ \E i \in DOMAIN sales : sales[i].sale_number = now
       \/ \E i \in DOMAIN purchases : purchases[i].purchase_number = now
    /\ now' = now + 1
    /\ UNCHANGED <<tables, last, ops, applied, edited, expect, validated>>

Next ==
    \/ SaleViewSet_create
    \/ PurchaseViewSet_create
    \/ adjust_stock
    \/ CustomerViewSet_create
    \/ CustomerViewSet_update
    \/ PaymentViewSet_create
    \/ PaymentViewSet_update
    \/ PaymentViewSet_destroy
    \/ SaleViewSet_update
    \/ SaleViewSet_destroy
    \/ PurchaseViewSet_update
    \/ PurchaseViewSet_destroy
    \/ Tick

Spec == Init /\ [][Next]_vars

\* Requests still to be answered: those waiting between is_valid() and
\* save() count.
Waiting == {w \in Workers : validated[w] # <<>>}

\* What a worker holds of a request: its kind, the step it is to take
\* next, the validated data, the customer instance it loaded, the stock
\* ledger its validation read and the phone the request sent.
Held(kind, step, data, instance, ledger, phone) ==
    [kind |-> kind, step |-> step, data |-> data, instance |-> instance,
     ledger |-> ledger, phone |-> phone]

NoInstance == [name |-> "", phone |-> "", balance |-> 0]

\* The row of customer c as loaded from d.
Customer_instance(d, c) == IF c = None THEN NoInstance ELSE d.customers[c]

\* The request data after the customer field and the look-up by phone of
\* CreateSaleSerializer.validate: the customer found, or None still.
validate_lookup(d, data) ==
    IF data.customer = None /\ data.customer_name # "" /\ data.customer_phone # ""
    THEN [data EXCEPT !.customer = FirstByPhone(d, data.customer_phone)]
    ELSE data

\* Customer.objects.create of CreateSaleSerializer.validate.
validate_create(d, data) ==
    [d |-> [d EXCEPT !.customers =
               Insert(@, [name |-> data.customer_name,
                          phone |-> data.customer_phone, balance |-> 0])],
     data |-> [data EXCEPT !.customer = NextId(d.customers)]]

\* The request is to create its customer: it named one by name and phone
\* and the look-up found nobody.
ToCreate(data) ==
    data.customer = None /\ data.customer_name # "" /\ data.customer_phone # ""

\* SaleViewSet.create, serializer.is_valid() on worker w up to the look-up
\* of the customer: the lines are validated against the stock of this
\* moment, a customer given by id is loaded, one given by phone looked up.
SaleViewSet_is_valid(w) ==
    \E items \in ConcurrentItemLists :
      /\ validated[w] = <<>>
      /\ ops + Cardinality(Waiting) < MaxOps
      /\ UNCHANGED <<now, edited, tables, applied, expect>>
      /\ IF \E k \in 1..Len(items) : ~CreateSaleItemSerializer_validate(DB, items[k])
         THEN /\ UNCHANGED validated
              /\ ops' = ops + 1
              /\ last' = Echo(Response("createSale", "ValidationError", None, 0,
                                       Overstock(DB, items)), items, "")
         ELSE \E who \in SaleCustomers(DB), pay \in ConcurrentPayments :
                LET data == validate_lookup(DB,
                                [customer |-> who.customer,
                                 customer_name |-> who.customer_name,
                                 customer_phone |-> who.customer_phone,
                                 paid_amount |-> pay.paid_amount,
                                 payment_type |-> pay.payment_type, items |-> items])
                IN /\ validated' = [validated EXCEPT ![w] =
                        <<Held("sale", IF ToCreate(data) THEN "create" ELSE "save", data,
                               Customer_instance(DB, data.customer), movements,
                               who.customer_phone)>>]
                   /\ UNCHANGED <<ops, last>>

\* The rest of is_valid() on worker w when the look-up found nobody: the
\* customer is created.
SaleViewSet_validate_create(w) ==
    /\ validated[w] # <<>>
    /\ validated[w][1].kind = "sale"
    /\ validated[w][1].step = "create"
    /\ Commit(validate_create(DB, validated[w][1].data).d)
    /\ applied' = Applied(validate_create(DB, validated[w][1].data).d)
    /\ expect' = Expect(validate_create(DB, validated[w][1].data).d, {})
    /\ validated' = [validated EXCEPT ![w] =
            <<Held("sale", "save", validate_create(DB, validated[w][1].data).data,
                   [name |-> validated[w][1].data.customer_name,
                    phone |-> validated[w][1].data.customer_phone, balance |-> 0],
                   validated[w][1].ledger, validated[w][1].phone)>>]
    /\ UNCHANGED <<now, edited, ops, last>>

\* SaleViewSet.create from serializer.save() on, on worker w: create()
\* runs on the database of this moment with the data validated and the
\* customer loaded earlier.
SaleViewSet_save(w) ==
    \E fault \in 0..1 :
      /\ validated[w] # <<>>
      /\ validated[w][1].kind = "sale"
      /\ validated[w][1].step = "save"
      /\ ops' = ops + 1
      /\ validated' = [validated EXCEPT ![w] = <<>>]
      /\ UNCHANGED <<now, edited>>
      /\ SaleResponds(
             perform_create_sale_loaded(DB, validated[w][1].instance,
                                        validated[w][1].data, now, fault),
             validated[w][1].data.paid_amount, FALSE,
             validated[w][1].data.items, validated[w][1].phone)

\* POST /payments/ on worker w, serializer.is_valid(): the customer field
\* loads the customer.
PaymentViewSet_is_valid(w) ==
    \E c \in DOMAIN customers, amount \in ConcurrentAmounts :
      /\ validated[w] = <<>>
      /\ ops + Cardinality(Waiting) < MaxOps
      /\ validated' = [validated EXCEPT ![w] =
              <<Held("payment", "save", [customer |-> c, amount |-> amount],
                     Customer_instance(DB, c), movements, "")>>]
      /\ UNCHANGED <<now, edited, tables, applied, expect, ops, last>>

\* POST /payments/ on worker w, serializer.save(): Payment.save inserts the
\* payment, takes the amount off the balance of the loaded customer and
\* saves that customer.
PaymentViewSet_save(w) ==
    /\ validated[w] # <<>>
    /\ validated[w][1].kind = "payment"
    /\ ops' = ops + 1
    /\ validated' = [validated EXCEPT ![w] = <<>>]
    /\ Commit(Payment_save(WithInstance(DB, validated[w][1].data.customer,
                                        validated[w][1].instance),
                           None, validated[w][1].data))
    /\ last' = Response("paymentCreate", "created", NextId(payments), 0, FALSE)
    /\ UNCHANGED <<now, edited, applied, expect>>

\* PUT/PATCH /paints/{id}/: PaintViewSet with PaintSerializer; both prices
\* carry MinValueValidator(0.01).
PaintViewSet_update ==
    \E p \in PricedPaints, data \in PriceInputs :
      /\ ops < MaxOps
      /\ ops' = ops + 1
      /\ UNCHANGED validated
      /\ UNCHANGED <<now, edited, applied, expect>>
      /\ IF data.cost_price < 1 \/ data.selling_price < 1
         THEN /\ UNCHANGED tables
              /\ last' = Response("paintUpdate", "ValidationError", None, 0, FALSE)
         ELSE /\ Commit([DB EXCEPT !.paints[p] = data])
              /\ last' = Response("paintUpdate", "ok", p, 0, FALSE)

\* The catalogue and the sales: prices change between and after sales.
NextCatalog ==
    \/ SaleViewSet_create
    \/ PaintViewSet_update
    \/ Tick

SpecCatalog == Init /\ [][NextCatalog]_vars

\* Sale requests served side by side, with nothing between is_valid() and
\* save() that keeps them apart.
NextConcurrent ==
    \/ \E w \in Workers : SaleViewSet_is_valid(w)
    \/ \E w \in Workers : SaleViewSet_validate_create(w)
    \/ \E w \in Workers : SaleViewSet_save(w)
    \/ Tick

SpecConcurrent == Init /\ [][NextConcurrent]_vars

\* Sales and payments served side by side: the requests that write a
\* customer's balance.
NextBalances ==
    \/ \E w \in Workers : SaleViewSet_is_valid(w)
    \/ \E w \in Workers : SaleViewSet_validate_create(w)
    \/ \E w \in Workers : SaleViewSet_save(w)
    \/ \E w \in Workers : PaymentViewSet_is_valid(w)
    \/ \E w \in Workers : PaymentViewSet_save(w)
    \/ Tick

SpecBalances == Init /\ [][NextBalances]_vars

\* The stock ledger as the stock-movement API, the stock adjustment and
\* the purchases write it.
NextLedger ==
    \/ PurchaseViewSet_create
    \/ adjust_stock
    \/ StockMovementViewSet_create
    \/ StockMovementViewSet_update
    \/ StockMovementViewSet_destroy
    \/ Tick

SpecLedger == Init /\ [][NextLedger]_vars

\* --------------------------------------------------------- properties
PaymentsOf(c) == {i \in DOMAIN payments : payments[i].customer = c}

RECURSIVE LedgerUpTo(_, _)
\* The quantities of the movements 1..n of paint p, added up row by row.
LedgerUpTo(p, n) ==
    IF n = 0 THEN 0
    ELSE (IF n \in DOMAIN movements /\ movements[n].paint = p
          THEN movements[n].quantity ELSE 0) + LedgerUpTo(p, n - 1)

RECURSIVE SumProducts(_)
\* Sum of unit_price * quantity over the sale lines in S, in fine units.
SumProducts(S) ==
    IF S = {} THEN 0
    ELSE LET i == CHOOSE x \in S : TRUE
         IN sale_items[i].unit_price * sale_items[i].quantity + SumProducts(S \ {i})

FailedStatuses == {"IntegrityError", "DatabaseError"}

Max(a, b) == IF a > b THEN a ELSE b

\* C1: as long as no balance was written through the customer API, every
\* customer's balance is the sale shortfalls applied to the customer minus
\* the amounts of the payments that now exist for the customer.
C1_BalanceIsShortfallsMinusPayments ==
    ~edited =>
        \A c \in DOMAIN customers :
            customers[c].balance = applied[c] - SumOver(payments, PaymentsOf(c), "amount")

\* C2: a persisted sale that is not of type debt and was requested with
\* paid_amount 0 (every non-debt request of SalePayments) has
\* paid_amount = total_amount.
C2_DefaultedSaleIsFullyPaid ==
    \A i \in DOMAIN sales :
        sales[i].payment_type # "debt" => sales[i].paid_amount = sales[i].total_amount

\* C3: every persisted sale's total_amount is the sum of its lines' stored
\* total_price, which is the sum of their unit_price * quantity.
C3_TotalIsSumOfLines ==
    \A i \in DOMAIN sales :
        /\ sales[i].total_amount = SumOver(sale_items, SaleItemsOf(DB, i), "total_price")
        /\ Fine(sales[i].total_amount) = SumProducts(SaleItemsOf(DB, i))

\* C4: in every reachable state each paint's current_stock is the signed
\* sum of the quantities of its stock movements, 0 when it has none.
C4_StockIsLedgerSum ==
    \A p \in Paints : current_stock(DB, p) = LedgerUpTo(p, NextId(movements) - 1)

C4_Witness ==
    /\ last.op = "createSale"
    /\ last.status = "created"
    /\ \E i \in DOMAIN movements : movements[i].quantity < 0
    /\ \E p \in Paints : current_stock(DB, p) > 0

\* C5: a sale request with a line that asks for more than the paint's
\* current stock is answered with a validation error and changes no table:
\* no sale, line, movement, customer or balance.
C5_OverstockRejected ==
    [][(ops' = ops + 1 /\ last'.op = "createSale" /\ last'.overstock)
        => (last'.status = "ValidationError" /\ UNCHANGED tables)]_vars

C5_Witness ==
    /\ last.op = "createSale"
    /\ last.overstock
    /\ last.status = "ValidationError"
    /\ movements # <<>>
    /\ customers # <<>>

\* C6: a sale or purchase creation that fails after its writes began
\* leaves no header, line or movement of the document, and every existing
\* customer's row, so every balance, and every stock are as before.
C6_FailedCreateWritesNothing ==
    [][(/\ ops' = ops + 1
        /\ last'.op \in {"createSale", "createPurchase"}
        /\ last'.status \in FailedStatuses)
        => /\ UNCHANGED <<sales, sale_items, purchases, purchase_items, movements, payments>>
           /\ \A c \in DOMAIN customers :
                 c \in DOMAIN customers' /\ customers'[c] = customers[c]]_vars

C6_Witness ==
    /\ last.op = "createSale"
    /\ last.status = "DatabaseError"
    /\ movements # <<>>
    /\ sales = <<>>

\* C7: a sale request that fails leaves the set of customers as it was,
\* also when it named a new customer by name and phone.
C7_FailedSaleLeavesNoCustomer ==
    [][(ops' = ops + 1 /\ last'.op = "createSale" /\ last'.status # "created")
        => DOMAIN customers' = DOMAIN customers]_vars

\* C8: a created sale of type debt keeps the paid_amount of the request,
\* and a created sale changes the balance of its customer by
\* max(total_amount - paid_amount, 0) of the persisted sale and no other
\* balance.
C8_ShortfallAdded ==
    [][(ops' = ops + 1 /\ last'.op = "createSale" /\ last'.status = "created")
        => /\ sales'[last'.id].payment_type = "debt"
                => sales'[last'.id].paid_amount = last'.paid_in
           /\ \A c \in DOMAIN customers' :
                 customers'[c].balance - BalanceOf(customers, c) =
                    IF c = sales'[last'.id].customer
                    THEN Max(sales'[last'.id].total_amount - sales'[last'.id].paid_amount, 0)
                    ELSE 0]_vars

\* C9: a request that is neither a sale creation nor a payment create,
\* update or delete leaves every customer's balance unchanged.
C9_OnlySalesAndPaymentsMoveBalances ==
    [][(/\ ops' = ops + 1
        /\ last'.op \notin {"createSale", "paymentCreate", "paymentUpdate", "paymentDelete"})
        => \A c \in DOMAIN customers : customers'[c].balance = customers[c].balance]_vars

\* C10: creating a payment of amount a > 0 takes a off its customer's
\* balance, and deleting a payment puts the balance at what it would be had
\* the payment never been made: the balance before the payment, moved by
\* whatever else happened to the customer since.
C10_PaymentRoundTrip ==
    [][ops' = ops + 1
        => /\ (last'.op = "paymentCreate" /\ last'.status = "created")
                => /\ payments'[last'.id].amount > 0
                   /\ customers'[payments'[last'.id].customer].balance =
                         customers[payments'[last'.id].customer].balance
                         - payments'[last'.id].amount
           /\ (last'.op = "paymentDelete" /\ last'.id \in DOMAIN expect)
                => customers'[payments[last'.id].customer].balance = expect[last'.id]]_vars

C10_Witness ==
    /\ last.op = "paymentDelete"
    /\ payments = <<>>
    /\ \E c \in DOMAIN customers : applied[c] > 0 /\ customers[c].balance = applied[c]

\* C11: updating a payment of amount a to a', its customer staying the
\* same, moves the customer's balance by -(a' - a), to the balance a
\* payment created with a' would have left (so a' = a changes nothing and
\* an update back to a restores the balance).
C11_PaymentAmountUpdate ==
    [][(/\ ops' = ops + 1
        /\ last'.op = "paymentUpdate"
        /\ last'.status = "ok"
        /\ payments'[last'.id].customer = payments[last'.id].customer)
        => /\ customers'[payments[last'.id].customer].balance =
                 customers[payments[last'.id].customer].balance
                 - (payments'[last'.id].amount - payments[last'.id].amount)
           /\ last'.id \in DOMAIN expect
                 => customers'[payments[last'.id].customer].balance =
                       expect[last'.id] - payments'[last'.id].amount]_vars

C11_Witness ==
    /\ last.op = "paymentUpdate"
    /\ last.status = "ok"
    /\ last.id \in DOMAIN expect
    /\ payments[last.id].amount = 2
    /\ customers[payments[last.id].customer].balance = expect[last.id] - 2

Phones == {"555", "777"}

\* C12: a sale request with a name and a phone and no customer id, when a
\* customer with that phone exists, creates no customer and, when the sale
\* is created, attaches a customer with that phone; and no sale request
\* raises the number of customers with one phone above one.
C12_ExistingPhoneReused ==
    [][(ops' = ops + 1 /\ last'.op = "createSale")
        => /\ (last'.phone # "" /\ WithPhone(DB, last'.phone) # {})
                => /\ DOMAIN customers' = DOMAIN customers
                   /\ last'.status = "created"
                         => sales'[last'.id].customer \in WithPhone(DB, last'.phone)
           /\ \A ph \in Phones :
                 Cardinality({c \in DOMAIN customers' : customers'[c].phone = ph})
                    <= Max(1, Cardinality(WithPhone(DB, ph)))]_vars

C12_Witness ==
    /\ last.op = "createSale"
    /\ last.status = "created"
    /\ last.phone = "555"
    /\ Cardinality(DOMAIN sales) = 2
    /\ Cardinality(WithPhone(DB, "555")) = 1
    /\ \A i \in DOMAIN sales : sales[i].customer \in WithPhone(DB, "555")

\* C13: under the stock-movement API, the adjustment and the purchases
\* every persisted movement of type 'out' has quantity <= 0; the API
\* stores an 'out' quantity q > 0 as -q and a negative one unchanged, and
\* an 'in' or 'adjustment' quantity as entered, whatever its sign.
C13_OutQuantityStoredNegative ==
    [][ops' = ops + 1
        => /\ \A i \in DOMAIN movements' :
                 movements'[i].movement_type = "out" => movements'[i].quantity <= 0
           /\ last'.op \in {"movementCreate", "movementUpdate"}
                 => /\ movements'[last'.id].movement_type = last'.items[1].movement_type
                    /\ movements'[last'.id].quantity =
                          IF last'.items[1].movement_type = "out"
                          THEN 0 - Abs(last'.items[1].quantity)
                          ELSE last'.items[1].quantity]_vars

C13_Witness ==
    /\ last.op = "movementUpdate"
    /\ last.items[1].movement_type = "out"
    /\ last.items[1].quantity > 0
    /\ movements[last.id].quantity = 0 - last.items[1].quantity
    /\ \E i \in DOMAIN movements :
          movements[i].movement_type = "in" /\ movements[i].quantity < 0

\* C18: a movement's total_cost is price_per_unit * |quantity| at insert,
\* unset without a price, and saving the movement again leaves it as it is.
C18_TotalCostFixedAtInsert ==
    [][ops' = ops + 1
        => /\ last'.op = "movementCreate"
                 => movements'[last'.id].total_cost =
                       IF last'.items[1].price_per_unit = NULL THEN NULL
                       ELSE Quantize2(last'.items[1].price_per_unit
                                      * Abs(last'.items[1].quantity))
           /\ last'.op = "movementUpdate"
                 => movements'[last'.id].total_cost = movements[last'.id].total_cost]_vars

RECURSIVE LinesQuantity(_, _, _)
\* The quantities of the lines 1..k of items that name paint p, added up.
LinesQuantity(items, p, k) ==
    IF k = 0 THEN 0
    ELSE (IF items[k].paint = p THEN items[k].quantity ELSE 0) + LinesQuantity(items, p, k - 1)

\* The stock of paint p that the movement table ms gives.
StockIn(ms, p) == current_stock([movements |-> ms], p)

\* C14: a created sale of n lines leaves the old movements as they were and
\* appends n movements, the k-th of type 'out' for the k-th line's paint
\* with minus its quantity and its unit_price; every paint's stock falls by
\* the quantities of the lines that name it (by 0 when none does).
C14_SaleWritesOutMovements ==
    [][(ops' = ops + 1 /\ last'.op = "createSale" /\ last'.status = "created")
        => /\ DOMAIN movements' =
                 DOMAIN movements \cup
                    (NextId(movements) .. NextId(movements) + Len(last'.items) - 1)
           /\ \A i \in DOMAIN movements : movements'[i] = movements[i]
           /\ \A k \in 1..Len(last'.items) :
                 /\ movements'[NextId(movements) + k - 1].movement_type = "out"
                 /\ movements'[NextId(movements) + k - 1].paint = last'.items[k].paint
                 /\ movements'[NextId(movements) + k - 1].quantity =
                       0 - last'.items[k].quantity
                 /\ movements'[NextId(movements) + k - 1].price_per_unit =
                       last'.items[k].unit_price
           /\ \A p \in Paints :
                 StockIn(movements', p) =
                    StockIn(movements, p) - LinesQuantity(last'.items, p, Len(last'.items))]_vars

C14_Witness ==
    /\ last.op = "createSale"
    /\ last.status = "created"
    /\ last.items = <<LinePiece, LineVolume>>
    /\ current_stock(DB, 1) = QuantityScale
    /\ current_stock(DB, 3) = 4 * (QuantityScale \div 10)

RECURSIVE LinesCost(_, _)
\* unit_cost * quantity over the lines 1..k of items, in fine units.
LinesCost(items, k) ==
    IF k = 0 THEN 0
    ELSE items[k].unit_cost * items[k].quantity + LinesCost(items, k - 1)

RECURSIVE LinesStoredCost(_, _)
\* unit_cost * quantity rounded to cents, over the lines 1..k of items.
LinesStoredCost(items, k) ==
    IF k = 0 THEN 0
    ELSE Quantize2(items[k].unit_cost * items[k].quantity) + LinesStoredCost(items, k - 1)

\* What a purchase request does besides setting the total: a created
\* purchase of n lines appends n 'in' movements with the lines' paints and
\* quantities, raises every paint's stock by the quantities of its lines
\* and changes no customer; a request with a line of quantity <= 0 is
\* rejected and changes no table.
PurchaseEffect ==
    /\ last'.status = "created"
          => /\ DOMAIN movements' =
                   DOMAIN movements \cup
                      (NextId(movements) .. NextId(movements) + Len(last'.items) - 1)
             /\ \A i \in DOMAIN movements : movements'[i] = movements[i]
             /\ \A k \in 1..Len(last'.items) :
                   /\ movements'[NextId(movements) + k - 1].movement_type = "in"
                   /\ movements'[NextId(movements) + k - 1].paint = last'.items[k].paint
                   /\ movements'[NextId(movements) + k - 1].quantity = last'.items[k].quantity
             /\ \A p \in Paints :
                   StockIn(movements', p) =
                      StockIn(movements, p) + LinesQuantity(last'.items, p, Len(last'.items))
             /\ customers' = customers
    /\ (\E k \in 1..Len(last'.items) : last'.items[k].quantity <= 0)
          => last'.status = "ValidationError" /\ UNCHANGED tables

\* C15 as stated: besides PurchaseEffect, a created purchase's total_amount
\* is the sum of unit_cost * quantity over its lines (as a stored amount:
\* rounded to cents).
C15_PurchaseTotalIsSumOfProducts ==
    [][(ops' = ops + 1 /\ last'.op = "createPurchase")
        => /\ PurchaseEffect
           /\ last'.status = "created"
                 => purchases'[last'.id].total_amount =
                       Quantize2(LinesCost(last'.items, Len(last'.items)))]_vars

\* C15, amended: besides PurchaseEffect, a created purchase's total_amount
\* is the sum of its lines' stored total_cost, each unit_cost * quantity
\* rounded to cents.
C15_PurchaseTotalIsSumOfStoredCosts ==
    [][(ops' = ops + 1 /\ last'.op = "createPurchase")
        => /\ PurchaseEffect
           /\ last'.status = "created"
                 => /\ purchases'[last'.id].total_amount =
                          LinesStoredCost(last'.items, Len(last'.items))
                    /\ purchases'[last'.id].total_amount =
                          SumOver(purchase_items',
                                  {i \in DOMAIN purchase_items' :
                                      purchase_items'[i].purchase = last'.id},
                                  "total_cost")]_vars

C15_Witness ==
    /\ last.op = "createPurchase"
    /\ last.status = "created"
    /\ last.items = <<PurchaseLine, PurchaseLine>>
    /\ purchases[last.id].total_amount = 2
    /\ current_stock(DB, 1) = 4 * QuantityScale

\* A line of the request has no positive quantity, or a quantity of a
\* piece-type paint that is not a whole number.
BadLine(items) ==
    \E k \in 1..Len(items) :
       \/ items[k].quantity <= 0
       \/ /\ product_type(items[k].paint) = "piece"
          /\ items[k].quantity % QuantityScale # 0

\* C16: a sale request with a line of quantity <= 0, or with a line for a
\* piece-type paint whose quantity is not a whole number, is rejected and
\* changes no table; a request without such a line and within stock (whole
\* pieces, any quantity of a measured or volume paint) passes validation.
C16_LineQuantityValidated ==
    [][(ops' = ops + 1 /\ last'.op = "createSale")
        => /\ BadLine(last'.items)
                 => last'.status = "ValidationError" /\ UNCHANGED tables
           /\ (~BadLine(last'.items) /\ ~last'.overstock)
                 => last'.status # "ValidationError"]_vars

C16_Witness ==
    /\ last.op = "createSale"
    /\ last.items = <<LinePieceFraction>>
    /\ last.status = "ValidationError"
    /\ ~last.overstock

\* Requests that the ledger has to survive untouched.
LedgerPreservingOps ==
    {"createSale", "createPurchase", "adjustStock",
     "paymentCreate", "paymentUpdate", "paymentDelete",
     "saleUpdate", "saleDelete", "purchaseUpdate", "purchaseDelete"}

\* C17: the ledger is append-only under sale and purchase creation, stock
\* adjustment, payment create/update/delete and sale/purchase update/delete:
\* every movement persisted before such a request is still there after it,
\* unchanged, and rows are added only after the existing ones.
C17_LedgerAppendOnly ==
    [][(ops' = ops + 1 /\ last'.op \in LedgerPreservingOps)
        => /\ \A i \in DOMAIN movements :
                 i \in DOMAIN movements' /\ movements'[i] = movements[i]
           /\ \A i \in DOMAIN movements' \ DOMAIN movements :
                 \A j \in DOMAIN movements : i > j]_vars

\* A sale was deleted and the 'out' movement of its line is still stored.
C17_Witness ==
    /\ last.op = "saleDelete"
    /\ DOMAIN sale_items = {}
    /\ \E i \in DOMAIN movements : movements[i].movement_type = "out"

\* C19: adjust_stock with a signed quantity succeeds whatever the stock,
\* appends exactly one movement, of type 'adjustment' and with the quantity
\* as entered, moves that paint's stock by exactly the quantity (below zero
\* too), and leaves the other paints' stock, every sale, every purchase and
\* every customer as they were.
C19_AdjustmentAsEntered ==
    [][(ops' = ops + 1 /\ last'.op = "adjustStock")
        => /\ last'.status = "ok"
           /\ last'.id \notin DOMAIN movements
           /\ DOMAIN movements' = DOMAIN movements \cup {last'.id}
           /\ \A i \in DOMAIN movements : movements'[i] = movements[i]
           /\ movements'[last'.id].paint = last'.items[1].paint
           /\ movements'[last'.id].movement_type = "adjustment"
           /\ movements'[last'.id].quantity = last'.items[1].quantity
           /\ \A p \in Paints :
                 StockIn(movements', p) = StockIn(movements, p)
                     + (IF p = last'.items[1].paint THEN last'.items[1].quantity ELSE 0)
           /\ sales' = sales /\ sale_items' = sale_items
           /\ purchases' = purchases /\ purchase_items' = purchase_items
           /\ customers' = customers /\ payments' = payments]_vars

\* An adjustment took a paint below zero while a sale exists.
C19_Witness ==
    /\ last.op = "adjustStock"
    /\ last.status = "ok"
    /\ last.items[1].quantity < 0
    /\ StockIn(movements, last.items[1].paint) < 0
    /\ DOMAIN sales # {}

\* Worker w writes its sale in this step.
Saves(w) == validated[w] # <<>> /\ validated'[w] = <<>>

\* C20: nothing keeps two sale requests apart between the availability
\* check and the write.  Every line of a request that is written was within
\* the stock of the ledger its validation read; the write does not look at
\* the stock again: it is never refused for want of stock and, when
\* created, lowers every stock by the lines' quantities whatever the stock
\* has become; a one-line request validated on the ledger as it still is
\* leaves the stock at zero or above, so that one-line sales bring a stock
\* below zero only when another sale was written in between.
C20_OversoldOnlyByOverlap ==
    [][\A w \in Workers :
         Saves(w) =>
            /\ \A k \in 1..Len(validated[w][1].data.items) :
                  validated[w][1].data.items[k].quantity
                      <= StockIn(validated[w][1].ledger, validated[w][1].data.items[k].paint)
            /\ last'.status \in {"created"} \cup FailedStatuses
            /\ last'.status = "created"
                  => \A p \in Paints :
                        StockIn(movements', p) = StockIn(movements, p)
                            - LinesQuantity(validated[w][1].data.items, p,
                                            Len(validated[w][1].data.items))
            /\ (Len(validated[w][1].data.items) = 1 /\ validated[w][1].ledger = movements)
                  => \A p \in Paints :
                        StockIn(movements, p) >= 0 => StockIn(movements', p) >= 0]_vars

\* Two one-line sales of the same paint were validated on the same stock
\* and both written: more is sold than there was, the stock is below zero.
C20_Witness ==
    /\ \E p \in Paints : StockIn(movements, p) < 0
    /\ Cardinality(DOMAIN sales) = 2
    /\ Cardinality(DOMAIN sale_items) = 2
    /\ \A i \in DOMAIN movements : movements[i].movement_type \in {"out", "adjustment"}
    /\ \A i \in DOMAIN movements :
          movements[i].movement_type = "adjustment" => movements[i].quantity > 0
    /\ last.op = "createSale"
    /\ last.status = "created"
    /\ Waiting = {}

\* A document of the kind that the request op creates carries the clock's
\* second as its number.
SameSecond(op) ==
    \/ op = "createSale" /\ \E i \in DOMAIN sales : sales[i].sale_number = now
    \/ op = "createPurchase" /\ \E i \in DOMAIN purchases : purchases[i].purchase_number = now

\* C22: the stored sales have pairwise distinct sale_number and the stored
\* purchases pairwise distinct purchase_number; a valid creation in the
\* second whose number a document of the same kind already carries fails
\* with an integrity error and leaves headers, lines, movements and every
\* customer row as they were.
C22_NumbersDistinct ==
    /\ [](/\ \A i, j \in DOMAIN sales :
                sales[i].sale_number = sales[j].sale_number => i = j
          /\ \A i, j \in DOMAIN purchases :
                purchases[i].purchase_number = purchases[j].purchase_number => i = j)
    /\ [][(/\ ops' = ops + 1
           /\ last'.op \in {"createSale", "createPurchase"}
           /\ last'.status # "ValidationError"
           /\ SameSecond(last'.op))
          => /\ last'.status = "IntegrityError"
             /\ sales' = sales /\ sale_items' = sale_items
             /\ purchases' = purchases /\ purchase_items' = purchase_items
             /\ movements' = movements /\ payments' = payments
             /\ \A c \in DOMAIN customers : customers'[c] = customers[c]]_vars

\* A sale exists and a creation in the second that a document of the same
\* kind carries as its number was refused.
C22_Witness ==
    /\ last.op \in {"createSale", "createPurchase"}
    /\ last.status = "IntegrityError"
    /\ SameSecond(last.op)
    /\ DOMAIN sales # {}

\* C23: a sale gets its sale_number at its first save, the second of its
\* creation, and keeps it: no request changes the sale_number of a stored
\* sale, the saves of its lines, the final save of the creation and an
\* update through the sale API included.
C23_SaleNumberAssignedOnce ==
    [][/\ \A i \in DOMAIN sales \cap DOMAIN sales' :
             sales'[i].sale_number = sales[i].sale_number
       /\ (ops' = ops + 1 /\ last'.op = "createSale" /\ last'.status = "created")
             => /\ last'.id \notin DOMAIN sales
                /\ sales'[last'.id].sale_number = now]_vars

\* A sale of two lines was updated in a later second than the one it was
\* created in.
C23_Witness ==
    /\ last.op = "saleUpdate"
    /\ last.id \in DOMAIN sales
    /\ sales[last.id].sale_number < now
    /\ Cardinality(SaleItemsOf(DB, last.id)) = 2

\* C25: a created sale or purchase, one after the other and with no
\* adjustment involved, keeps every stock at zero or above when every stock
\* was at zero or above before it, also when several lines of the sale name
\* the same paint.
C25_SalesKeepStockNonNegative ==
    [][(/\ ops' = ops + 1
        /\ last'.op \in {"createSale", "createPurchase"}
        /\ last'.status = "created"
        /\ \A p \in Paints : StockIn(movements, p) >= 0)
       => \A p \in Paints : StockIn(movements', p) >= 0]_vars

\* C26: a created sale with a customer, a payment_type other than debt and
\* no paid_amount leaves that customer's balance as it was (0 for a customer
\* the request created), whatever the number of lines.
C26_DefaultedSaleAddsNoDebt ==
    [][(/\ ops' = ops + 1
        /\ last'.op = "createSale"
        /\ last'.status = "created"
        /\ last'.paid_in = 0
        /\ sales'[last'.id].payment_type # "debt"
        /\ sales'[last'.id].customer # None)
       => customers'[sales'[last'.id].customer].balance
             = BalanceOf(customers, sales'[last'.id].customer)]_vars

\* C27: when an update moves a payment from customer A to customer B, with
\* the old amount a and the new amount a', A's balance rises by a and B's
\* balance falls by a'.
C27_PaymentMovesWithCustomer ==
    [][(/\ ops' = ops + 1
        /\ last'.op = "paymentUpdate"
        /\ last'.status = "ok"
        /\ payments'[last'.id].customer # payments[last'.id].customer)
       => /\ customers'[payments[last'.id].customer].balance
                = customers[payments[last'.id].customer].balance + payments[last'.id].amount
          /\ customers'[payments'[last'.id].customer].balance
                = customers[payments'[last'.id].customer].balance
                     - payments'[last'.id].amount]_vars

\* C28: deleting a sale through the sale API removes the sale and its
\* lines and nothing else: the other sales and lines, every movement (so
\* every stock), every customer with its balance, the payments and the
\* purchases stay as they were.
C28_SaleDeleteRemovesSaleAndLinesOnly ==
    [][(ops' = ops + 1 /\ last'.op = "saleDelete")
       => /\ last'.id \in DOMAIN sales
          /\ DOMAIN sales' = DOMAIN sales \ {last'.id}
          /\ \A i \in DOMAIN sales' : sales'[i] = sales[i]
          /\ DOMAIN sale_items' = DOMAIN sale_items \ SaleItemsOf(DB, last'.id)
          /\ \A i \in DOMAIN sale_items' : sale_items'[i] = sale_items[i]
          /\ movements' = movements
          /\ \A p \in Paints : StockIn(movements', p) = StockIn(movements, p)
          /\ customers' = customers
          /\ payments' = payments
          /\ purchases' = purchases /\ purchase_items' = purchase_items]_vars

\* The only sale was deleted; its 'out' movement is still stored and the
\* shortfall it added to a customer's balance is still there.
C28_Witness ==
    /\ last.op = "saleDelete"
    /\ DOMAIN sales = {}
    /\ DOMAIN sale_items = {}
    /\ \E i \in DOMAIN movements : movements[i].movement_type = "out"
    /\ \E c \in DOMAIN customers :
          /\ c \in DOMAIN applied
          /\ applied[c] > 0
          /\ customers[c].balance > 0

\* C29: an update of a sale through the sale API changes no customer row
\* and no movement, keeps the sale's number and total, and stores the
\* total as paid_amount when the request leaves paid_amount 0 with a
\* payment_type other than debt.
C29_SaleUpdateTouchesSaleOnly ==
    [][(ops' = ops + 1 /\ last'.op = "saleUpdate")
       => /\ customers' = customers
          /\ payments' = payments
          /\ movements' = movements
          /\ sale_items' = sale_items
          /\ DOMAIN sales' = DOMAIN sales
          /\ \A i \in DOMAIN sales \ {last'.id} : sales'[i] = sales[i]
          /\ sales'[last'.id].sale_number = sales[last'.id].sale_number
          /\ sales'[last'.id].total_amount = sales[last'.id].total_amount
          /\ (last'.paid_in = 0 /\ sales'[last'.id].payment_type # "debt")
                => sales'[last'.id].paid_amount = sales'[last'.id].total_amount]_vars

\* A sale with a customer was updated to cash with no paid_amount: it is
\* stored as paid in full while its customer's balance keeps a shortfall.
C29_Witness ==
    /\ last.op = "saleUpdate"
    /\ last.paid_in = 0
    /\ sales[last.id].payment_type = "cash"
    /\ sales[last.id].customer # None
    /\ sales[last.id].total_amount > 0
    /\ sales[last.id].paid_amount = sales[last.id].total_amount
    /\ customers[sales[last.id].customer].balance > 0

\* C24: the unit_price of a sale's line is the one the request sent, not
\* the paint's selling_price, and total_price is computed from it; a later
\* change of a paint's selling_price or cost_price leaves every stored sale
\* line, every sale and every customer as they were.
C24_UnitPriceIsCallersSnapshot ==
    [][/\ (ops' = ops + 1 /\ last'.op = "createSale" /\ last'.status = "created")
          => /\ Cardinality(SaleItemsOf([sale_items |-> sale_items'], last'.id))
                   = Len(last'.items)
             /\ \A i \in SaleItemsOf([sale_items |-> sale_items'], last'.id) :
                   \E k \in 1..Len(last'.items) :
                      /\ sale_items'[i].paint = last'.items[k].paint
                      /\ sale_items'[i].unit_price = last'.items[k].unit_price
                      /\ sale_items'[i].total_price
                            = Quantize2(last'.items[k].unit_price * last'.items[k].quantity)
       /\ (ops' = ops + 1 /\ last'.op = "paintUpdate")
          => /\ sale_items' = sale_items
             /\ sales' = sales
             /\ customers' = customers
             /\ movements' = movements]_vars

\* The selling_price of the piece paint was changed after a piece was sold
\* at another price to a customer who owes for it.
C24_Witness ==
    /\ last.op = "paintUpdate"
    /\ last.status = "ok"
    /\ paints[1].selling_price = 4
    /\ \E i \in DOMAIN sale_items :
          /\ sale_items[i].paint = 1
          /\ sale_items[i].unit_price = 2
          /\ sales[sale_items[i].sale].customer # None
          /\ customers[sales[sale_items[i].sale].customer].balance > 0

\* C30: however two sale requests with the same unknown phone and no
\* customer id interleave, at most one customer has that phone afterwards
\* and the sales of those requests name that customer.
C30_OneCustomerPerPhone ==
    /\ \A c1, c2 \in DOMAIN customers :
          customers[c1].phone = customers[c2].phone => c1 = c2
    /\ (last.op = "createSale" /\ last.status = "created" /\ last.phone # "")
          => sales[last.id].customer = FirstByPhone(DB, last.phone)

\* C21: a request that changes a customer's balance writes the balance it
\* loaded when it was validated moved by its own amount, whatever the
\* balance has become: a payment stores the loaded balance minus its
\* amount, a created sale with a shortfall the loaded balance plus the
\* shortfall, and a created sale without one leaves the row alone.  The
\* change of another request written in between is lost.
C21_BalanceWrittenFromLoadedInstance ==
    [][\A w \in Workers :
         (Saves(w) /\ last'.status = "created" /\ validated[w][1].data.customer # None)
         => /\ validated[w][1].kind = "payment"
                 => customers'[validated[w][1].data.customer].balance
                       = validated[w][1].instance.balance - validated[w][1].data.amount
            /\ validated[w][1].kind = "sale"
                 => customers'[validated[w][1].data.customer].balance
                       = IF sales'[last'.id].total_amount > sales'[last'.id].paid_amount
                         THEN validated[w][1].instance.balance
                                 + sales'[last'.id].total_amount
                                 - sales'[last'.id].paid_amount
                         ELSE customers[validated[w][1].data.customer].balance]_vars

\* Two payments for customer 1 were validated on the same balance and both
\* written: the balance is not the balance at the start less both amounts.
C21_Witness ==
    /\ Waiting = {}
    /\ DOMAIN sales = {}
    /\ DOMAIN customers = {1}
    /\ DOMAIN payments = {1, 2, 3}
    /\ payments[2].customer = 1
    /\ payments[3].customer = 1
    /\ customers[1].balance # (0 - 1) - payments[2].amount - payments[3].amount

====
